---- MODULE Spec2Model ----
(***************************************************************************)
(* Multi-agent coordination core of                                        *)
(* multi-agent-patterns/scripts/coordination.py: the message bus           *)
(* (AgentCommunication), the supervisor (SupervisorAgent) and the failure  *)
(* handler (AgentFailureHandler).  Python dicts are functions whose DOMAIN *)
(* is the set of keys present; Python lists are sequences.                 *)
(***************************************************************************)
EXTENDS Integers, Sequences, FiniteSets, TLC

VARIABLES
    inbox,             \* AgentCommunication.inbox
    outbox,            \* AgentCommunication.outbox
    message_history,   \* AgentCommunication.message_history
    workers,           \* SupervisorAgent.workers, in insertion order
    votes,             \* ConsensusManager.votes
    lists,             \* threads: the list objects created for one agent's mailbox
    slot,              \* threads: the list self.inbox holds for that agent, 0 for no key
    threads,           \* threads: each thread's position in send or receive, and its locals
    next_id,           \* the uuid4 the next AgentMessage gets (each one is fresh)
    delivered,         \* history: per agent, the batches receive returned, concatenated
    n_sent,            \* history: the number of send calls performed
    now,               \* time.time()
    max_retries,       \* AgentFailureHandler.max_retries
    failure_counts,    \* AgentFailureHandler.failure_counts
    circuit_breakers,  \* AgentFailureHandler.circuit_breakers
    fh_log,            \* history: per agent, the handle_failure/record_success calls so far
    call,              \* history: the operation that ran last, with its arguments
    ret                \* history: what that operation returned or raised

vars == <<inbox, outbox, message_history, workers, votes, lists, slot, threads,
          next_id, delivered, n_sent,
          now, max_retries, failure_counts, circuit_breakers, fh_log, call, ret>>

threadVars == <<lists, slot, threads>>

busVars == <<inbox, outbox, message_history, next_id, delivered, n_sent>>

fhVars == <<max_retries, failure_counts, circuit_breakers, fh_log>>

----------------------------------------------------------------------------
(* Bounds of the model *)

\* time.time() is observed up to this value
MaxTime == 120

\* handle_failure calls in one run, over all agents
MaxFailures == 7

\* AgentMessage objects created in one run
MaxMsgs == 3

\* the agents addressed on the bus
BusAgents == {"supervisor", "w1", "w2"}

\* the steps by which the clock advances between two operations
TickSteps == {30, 60}

\* the agents given to the failure handler
FhAgents == {"w1", "w2"}

\* the max_retries values a handler is constructed with (3 is the default)
Thresholds == {1, 3, 7}

----------------------------------------------------------------------------
(* Python dict helpers *)

\* d.get(k, default)
Get(d, k, default) ==
    IF k \in DOMAIN d THEN d[k] ELSE default

\* d[k] = v
Put(d, k, v) ==
    [x \in (DOMAIN d) \cup {k} |-> IF x = k THEN v ELSE d[x]]

\* del d[k]
Del(d, k) ==
    [x \in (DOMAIN d) \ {k} |-> d[x]]

EmptyDict == [x \in {} |-> 0]

Min(a, b) == IF a <= b THEN a ELSE b

NoCall == [op |-> "init"]

----------------------------------------------------------------------------
(* AgentMessage and AgentCommunication *)

\* AgentMessage(...): timestamp and message_id come from the default factories
AgentMessage(sender, receiver, message_type, content, requires_response, priority, id) ==
    [sender |-> sender,
     receiver |-> receiver,
     message_type |-> message_type,
     content |-> content,
     timestamp |-> now,
     message_id |-> id,
     requires_response |-> requires_response,
     priority |-> priority]

\* the bus as one value, with its history variables
Bus ==
    [inbox |-> inbox,
     outbox |-> outbox,
     message_history |-> message_history,
     next_id |-> next_id,
     delivered |-> delivered,
     n_sent |-> n_sent]

SetBus(b) ==
    /\ inbox' = b.inbox
    /\ outbox' = b.outbox
    /\ message_history' = b.message_history
    /\ next_id' = b.next_id
    /\ delivered' = b.delivered
    /\ n_sent' = b.n_sent

EnqueueFront(box, m) ==
    Put(box, m.receiver, <<m>> \o Get(box, m.receiver, <<>>))

\* send: the inbox after the receiver's list is created if missing and appended to
Enqueue(box, m) ==
    Put(box, m.receiver, Append(Get(box, m.receiver, <<>>), m))

LogNothing(log, m) == log

\* send: self.outbox.append(message)
Log(log, m) == Append(log, m)

\* AgentCommunication.send
BusSend(b, m) ==
    [b EXCEPT !.inbox = Enqueue(b.inbox, m),
              !.outbox = Log(b.outbox, m),
              !.message_history = Append(b.message_history, m),
              !.n_sent = @ + 1]

KeepInbox(box, a) == box

\* receive: self.inbox[agent_id] = []
ClearInbox(box, a) == Put(box, a, <<>>)

\* AgentCommunication.receive: the bus afterwards and the list returned
BusReceive(b, a) ==
    [bus |-> [b EXCEPT !.inbox = ClearInbox(b.inbox, a),
                       !.delivered[a] = @ \o Get(b.inbox, a, <<>>)],
     messages |-> Get(b.inbox, a, <<>>)]

\* a new AgentMessage takes the next fresh id
Fresh(b) == [b EXCEPT !.next_id = @ + 1]

BusBroadcastFirst(b, sender, message_type, content, receivers) ==
    IF receivers = <<>> THEN b
    ELSE BusSend(Fresh(b),
                 AgentMessage(sender, Head(receivers), message_type, content,
                              FALSE, 0, b.next_id))

\* AgentCommunication.broadcast: one send per entry of receivers, in order
RECURSIVE BusBroadcast(_, _, _, _, _)
BusBroadcast(b, sender, message_type, content, receivers) ==
    IF receivers = <<>> THEN b
    ELSE BusBroadcast(
             BusSend(Fresh(b),
                     AgentMessage(sender, Head(receivers), message_type, content,
                                  FALSE, 0, b.next_id)),
             sender, message_type, content, Tail(receivers))

\* send(AgentMessage(...)) by any caller of the bus
Send(sender, receiver, message_type, content, requires_response, priority) ==
    LET m == AgentMessage(sender, receiver, message_type, content,
                          requires_response, priority, next_id) IN
    /\ next_id <= MaxMsgs
    /\ SetBus(BusSend(Fresh(Bus), m))
    /\ call' = [op |-> "send", message |-> m]
    /\ ret' = "None"

Receive(a) ==
    LET r == BusReceive(Bus, a) IN
    /\ SetBus(r.bus)
    /\ call' = [op |-> "receive", agent |-> a]
    /\ ret' = r.messages

Broadcast(sender, message_type, content, receivers) ==
    /\ next_id + Len(receivers) <= MaxMsgs + 1
    /\ SetBus(BusBroadcast(Bus, sender, message_type, content, receivers))
    /\ call' = [op |-> "broadcast", sender |-> sender, message_type |-> message_type,
                content |-> content, receivers |-> receivers]
    /\ ret' = "None"

----------------------------------------------------------------------------
(* SupervisorAgent *)

\* SupervisorAgent.name
SupervisorName == "supervisor"

\* the position of the key worker_id in self.workers, 0 when it is no key
IndexOf(ws, worker_id) ==
    IF \E i \in 1..Len(ws) : ws[i].wid = worker_id
    THEN CHOOSE i \in 1..Len(ws) : ws[i].wid = worker_id
    ELSE 0

\* the record register_worker stores
WorkerRecord(worker_id, capabilities) ==
    [wid |-> worker_id,
     capabilities |-> capabilities,
     status |-> "available",
     current_task |-> "None",
     tasks_completed |-> 0,
     avg_response_time |-> 0]

RegisteredOnce(ws, worker_id, capabilities) ==
    IF IndexOf(ws, worker_id) = 0
    THEN Append(ws, WorkerRecord(worker_id, capabilities))
    ELSE ws

\* register_worker: self.workers[worker_id] = {...}; a key already present
\* keeps its place in the dict
Registered(ws, worker_id, capabilities) ==
    IF IndexOf(ws, worker_id) = 0
    THEN Append(ws, WorkerRecord(worker_id, capabilities))
    ELSE [ws EXCEPT ![IndexOf(ws, worker_id)] = WorkerRecord(worker_id, capabilities)]

\* decompose_task: the table of subtask templates
Template(task_type, task) ==
    IF task_type = "research"
    THEN <<[type |-> "search", description |-> "Gather information"],
           [type |-> "analyze", description |-> "Analyze findings"],
           [type |-> "synthesize", description |-> "Synthesize results"]>>
    ELSE IF task_type = "create"
    THEN <<[type |-> "plan", description |-> "Create plan"],
           [type |-> "draft", description |-> "Draft content"],
           [type |-> "review", description |-> "Review and refine"]>>
    ELSE <<[type |-> "execute",
            description |-> Get(task, "description", "Execute task")]>>

DecomposeNoInherit(task) ==
    LET subtasks == Template(Get(task, "type", "general"), task) IN
    [i \in 1..Len(subtasks) |->
        [type |-> subtasks[i].type,
         description |-> subtasks[i].description,
         parent_task |-> Get(task, "id", "None"),
         priority |-> 0]]

\* decompose_task
DecomposeTask(task) ==
    LET subtasks == Template(Get(task, "type", "general"), task) IN
    [i \in 1..Len(subtasks) |->
        [type |-> subtasks[i].type,
         description |-> subtasks[i].description,
         parent_task |-> Get(task, "id", "None"),
         priority |-> Get(task, "priority", 0)]]

\* the worker ids of a list of worker records
Ids(ws) == [i \in 1..Len(ws) |-> ws[i].wid]

\* select_worker: the available workers with the required capability
CapableCandidates(ws, required_capability) ==
    Ids(SelectSeq(ws, LAMBDA info : /\ info.status = "available"
                                    /\ required_capability \in info.capabilities))

AllIds(ws) == Ids(ws)

\* select_worker: the fallback, any available worker
AvailableCandidates(ws) ==
    Ids(SelectSeq(ws, LAMBDA info : info.status = "available"))

MinByLast(ws, candidates) ==
    LET key(w) == ws[IndexOf(ws, w)].tasks_completed
        best == CHOOSE i \in 1..Len(candidates) :
                    /\ \A j \in 1..Len(candidates) : key(candidates[i]) <= key(candidates[j])
                    /\ \A j \in (i + 1)..Len(candidates) : key(candidates[j]) > key(candidates[i])
    IN candidates[best]

\* min(candidates, key=...): the first candidate with the smallest key
MinBy(ws, candidates) ==
    LET key(w) == ws[IndexOf(ws, w)].tasks_completed
        best == CHOOSE i \in 1..Len(candidates) :
                    /\ \A j \in 1..Len(candidates) : key(candidates[i]) <= key(candidates[j])
                    /\ \A j \in 1..(i - 1) : key(candidates[j]) > key(candidates[i])
    IN candidates[best]

NoWorker == [value |-> "None"]

\* raise ValueError("No available workers")
NoAvailableWorkers == [raised |-> "ValueError", message |-> "No available workers"]

\* select_worker: [value |-> worker id], or the error it raises
SelectWorkerOf(ws, subtask) ==
    LET required_capability == Get(subtask, "type", "general")
        first == CapableCandidates(ws, required_capability)
        candidates == IF first = <<>> THEN AvailableCandidates(ws) ELSE first
    IN IF candidates = <<>>
       THEN NoAvailableWorkers
       ELSE [value |-> MinBy(ws, candidates)]

\* the supervisor and the bus as one value, with what the call returns or raises
SupState(ws, b) == [workers |-> ws, bus |-> b]

AnyWorkerKnown(ws, worker_id) == TRUE

\* assign_task: worker_id in self.workers
KnownWorker(ws, worker_id) == IndexOf(ws, worker_id) # 0

\* assign_task: the state afterwards and the outcome
AssignTaskOf(st, subtask, worker_id) ==
    LET k == IndexOf(st.workers, worker_id) IN
    IF ~KnownWorker(st.workers, worker_id)
    THEN [st |-> st,
          out |-> [raised |-> "ValueError", message |-> "Unknown worker"]]
    ELSE LET busy == [st.workers EXCEPT ![k].status = "busy"] IN
         IF "id" \notin DOMAIN subtask
         THEN [st |-> SupState(busy, st.bus),
               out |-> [raised |-> "KeyError", message |-> "id"]]
         ELSE LET m == AgentMessage(SupervisorName, worker_id, "request",
                                    [action |-> "execute_task", task |-> subtask],
                                    TRUE, Get(subtask, "priority", 0), st.bus.next_id)
              IN [st |-> SupState([busy EXCEPT ![k].current_task = subtask.id],
                                  BusSend(Fresh(st.bus), m)),
                  out |-> [value |-> "None"]]

\* the contents of the RESPONSE messages of a received batch
ResponseContents(messages) ==
    LET rs == SelectSeq(messages, LAMBDA msg : msg.message_type = "response") IN
    [i \in 1..Len(rs) |-> rs[i].content]

\* r.get("success") is true
Succeeded(r) == Get(r, "success", FALSE) = TRUE

\* sep.join(strings)
RECURSIVE Join(_, _)
Join(strings, sep) ==
    IF strings = <<>> THEN ""
    ELSE IF Len(strings) = 1 THEN strings[1]
    ELSE strings[1] \o sep \o Join(Tail(strings), sep)

QualityScoreUnguarded(successful, total) == [num |-> successful, den |-> total]

\* successful / len(subtask_results) if subtask_results else 0, as a fraction
QualityScore(successful, total) ==
    IF total > 0 THEN [num |-> successful, den |-> total] ELSE [num |-> 0, den |-> 1]

\* aggregate_results
AggregateResults(subtask_results) ==
    LET good == SelectSeq(subtask_results, Succeeded)
        summaries == [i \in 1..Len(good) |-> Get(good[i], "summary", "")]
        successful == Len(SelectSeq(subtask_results, Succeeded))
    IN [results |-> subtask_results,
        summary |-> Join(summaries, " | "),
        quality_score |-> QualityScore(successful, Len(subtask_results))]

\* final_result["quality_score"] >= 0.8
QualityOk(agg) == 5 * agg.quality_score.num >= 4 * agg.quality_score.den

\* run_workflow: self.receive(self.name); SupervisorAgent defines send but no
\* receive, so the attribute lookup fails
SupervisorReceive(b, name) ==
    [raised |-> "AttributeError", message |-> "receive"]

\* run_workflow: the loop over the subtasks from the i-th on; picks logs each
\* select_worker result with the workers it chose from
RECURSIVE WorkflowLoop(_, _, _, _, _)
WorkflowLoop(st, subtasks, i, results, picks) ==
    IF i > Len(subtasks)
    THEN [st |-> st, out |-> [value |-> results], picks |-> picks]
    ELSE LET sel == SelectWorkerOf(st.workers, subtasks[i])
             seen == Append(picks, [subtask |-> subtasks[i], result |-> sel,
                                    workers |-> st.workers])
         IN IF "raised" \in DOMAIN sel
            THEN [st |-> st, out |-> sel, picks |-> seen]
            ELSE LET asg == AssignTaskOf(st, subtasks[i], sel.value) IN
                 IF "raised" \in DOMAIN asg.out
                 THEN [st |-> asg.st, out |-> asg.out, picks |-> seen]
                 ELSE LET rcv == SupervisorReceive(asg.st.bus, SupervisorName) IN
                      IF "raised" \in DOMAIN rcv
                      THEN [st |-> asg.st, out |-> rcv, picks |-> seen]
                      ELSE WorkflowLoop(SupState(asg.st.workers, rcv.bus), subtasks,
                                        i + 1,
                                        results \o ResponseContents(rcv.messages), seen)

\* run_workflow
RunWorkflowOf(st, task) ==
    LET run == WorkflowLoop(st, DecomposeTask(task), 1, <<>>, <<>>) IN
    IF "raised" \in DOMAIN run.out
    THEN run
    ELSE LET final_result == AggregateResults(run.out.value) IN
         [st |-> run.st,
          out |-> [value |-> [task |-> task,
                              subtask_results |-> run.out.value,
                              final_result |-> final_result,
                              success |-> QualityOk(final_result)]],
          picks |-> run.picks]

RegisterWorker(worker_id, capabilities) ==
    /\ workers' = Registered(workers, worker_id, capabilities)
    /\ call' = [op |-> "register_worker", worker_id |-> worker_id,
                capabilities |-> capabilities]
    /\ ret' = "None"
    /\ UNCHANGED busVars

SelectWorker(subtask) ==
    /\ call' = [op |-> "select_worker", subtask |-> subtask]
    /\ ret' = SelectWorkerOf(workers, subtask)
    /\ UNCHANGED <<workers, busVars>>

AssignTask(subtask, worker_id) ==
    LET r == AssignTaskOf(SupState(workers, Bus), subtask, worker_id) IN
    /\ r.st.bus.next_id <= MaxMsgs + 1
    /\ workers' = r.st.workers
    /\ SetBus(r.st.bus)
    /\ call' = [op |-> "assign_task", subtask |-> subtask, worker_id |-> worker_id]
    /\ ret' = r.out

\* decompose_task called on its own
Decompose(task) ==
    /\ call' = [op |-> "decompose_task", task |-> task]
    /\ ret' = DecomposeTask(task)
    /\ UNCHANGED <<workers, busVars>>

\* aggregate_results called on its own
Aggregate(subtask_results) ==
    /\ call' = [op |-> "aggregate_results", subtask_results |-> subtask_results]
    /\ ret' = AggregateResults(subtask_results)
    /\ UNCHANGED <<workers, busVars>>

RunWorkflow(task) ==
    LET r == RunWorkflowOf(SupState(workers, Bus), task) IN
    /\ r.st.bus.next_id <= MaxMsgs + 1
    /\ workers' = r.st.workers
    /\ SetBus(r.st.bus)
    /\ call' = [op |-> "run_workflow", task |-> task, picks |-> r.picks]
    /\ ret' = r.out

----------------------------------------------------------------------------
(* send and receive for one agent run by threads, one step per read or write
   of self.inbox; message s is the one sender thread s sends *)

\* the sender threads, and the number of receive calls of the receiver thread
Senders == {1, 2}

\* the threads that each run handle_failure("w1", ...) once
Handlers == {1, 2, 3}

\* the threads that each run submit_vote("t1", ...) once
Voters == {1, 2, 3}

MaxReceives == 2

ThreadsInit ==
    [senders |-> [s \in Senders |-> [pc |-> "line45", ref |-> 0]],
     receiver |-> [pc |-> "line53", ref |-> 0, got |-> <<>>, calls |-> 0],
     handlers |-> [h \in Handlers |-> [pc |-> "line400get", count |-> 0]],
     recorder |-> [pc |-> "line439"],
     initiator |-> [pc |-> "line302"],
     voters |-> [v \in Voters |-> [pc |-> "line317", k |-> 0]],
     tally |-> [pc |-> "line340", seen |-> <<>>, out |-> [value |-> "None"]]]

\* send, line 45: if message.receiver not in self.inbox
SendCheck(s) ==
    /\ threads.senders[s].pc = "line45"
    /\ threads' = [threads EXCEPT !.senders[s].pc =
                                     IF slot = 0 THEN "line46" ELSE "line47"]
    /\ UNCHANGED <<lists, slot>>

\* send, line 46: self.inbox[message.receiver] = []
SendCreate(s) ==
    /\ threads.senders[s].pc = "line46"
    /\ lists' = Append(lists, <<>>)
    /\ slot' = Len(lists) + 1
    /\ threads' = [threads EXCEPT !.senders[s].pc = "line47"]

\* send, line 47: the read self.inbox[message.receiver]
SendLookup(s) ==
    /\ threads.senders[s].pc = "line47"
    /\ threads' = [threads EXCEPT !.senders[s].pc = "line47append",
                                  !.senders[s].ref = slot]
    /\ UNCHANGED <<lists, slot>>

\* send, line 47: .append(message) on the list that was read
SendAppend(s) ==
    /\ threads.senders[s].pc = "line47append"
    /\ lists' = [lists EXCEPT ![threads.senders[s].ref] = Append(@, s)]
    /\ threads' = [threads EXCEPT !.senders[s].pc = "done"]
    /\ UNCHANGED slot

\* receive, line 53: messages = self.inbox.get(agent_id, [])
ReceiveGet ==
    /\ threads.receiver.pc = "line53"
    /\ threads.receiver.calls < MaxReceives
    /\ IF slot = 0
       THEN /\ lists' = Append(lists, <<>>)
            /\ threads' = [threads EXCEPT !.receiver.pc = "line54",
                                          !.receiver.ref = Len(lists) + 1,
                                          !.receiver.calls = @ + 1]
       ELSE /\ lists' = lists
            /\ threads' = [threads EXCEPT !.receiver.pc = "line54",
                                          !.receiver.ref = slot,
                                          !.receiver.calls = @ + 1]
    /\ UNCHANGED slot

\* receive, line 54: self.inbox[agent_id] = []
ReceiveClear ==
    /\ threads.receiver.pc = "line54"
    /\ lists' = Append(lists, <<>>)
    /\ slot' = Len(lists) + 1
    /\ threads' = [threads EXCEPT !.receiver.pc = "line55"]

\* receive, line 55: return messages, the list object itself
ReceiveReturn ==
    /\ threads.receiver.pc = "line55"
    /\ threads' = [threads EXCEPT !.receiver.pc = "returned"]
    /\ UNCHANGED <<lists, slot>>

\* the caller of receive reads the list it was given, at some time after the
\* return
CallerReads ==
    /\ threads.receiver.pc = "returned"
    /\ threads' = [threads EXCEPT !.receiver.pc = "line53",
                                  !.receiver.got = @ \o lists[threads.receiver.ref]]
    /\ UNCHANGED <<lists, slot>>

----------------------------------------------------------------------------
(* HandoffProtocol *)

\* create_handoff
CreateHandoff(from_agent, to_agent, context, reason, id) ==
    AgentMessage(from_agent, to_agent, "handover",
                 [handoff_reason |-> reason,
                  transferred_context |-> context,
                  handoff_timestamp |-> now],
                 FALSE, 1, id)

\* the HANDOVER messages of a list, in list order
Handovers(messages) == SelectSeq(messages, LAMBDA msg : msg.message_type = "handover")

LastHandover(messages) ==
    IF Handovers(messages) = <<>>
    THEN [found |-> FALSE]
    ELSE [found |-> TRUE, message |-> Handovers(messages)[Len(Handovers(messages))]]

\* accept_handoff: the loop that returns the first HANDOVER message, or None
FirstHandover(messages) ==
    IF Handovers(messages) = <<>>
    THEN [found |-> FALSE]
    ELSE [found |-> TRUE, message |-> Handovers(messages)[1]]

\* accept_handoff: the bus afterwards, the messages drained and the outcome
AcceptHandoffOf(b, agent_id) ==
    LET r == BusReceive(b, agent_id) IN
    [bus |-> r.bus, drained |-> r.messages, out |-> FirstHandover(r.messages)]

AnyResponse(m) == m.message_type = "response"

\* transfer_with_state: the test applied to each message of ack
IsAck(m) ==
    /\ m.message_type = "response"
    /\ Get(m.content, "status", "None") = "handoff_received"

\* the messages other agents send to from_agent while transfer_with_state sleeps
RECURSIVE Arrive(_, _, _)
Arrive(b, from_agent, arrivals) ==
    IF arrivals = <<>> THEN b
    ELSE Arrive(BusSend(Fresh(b),
                        AgentMessage(Head(arrivals).sender, from_agent,
                                     Head(arrivals).message_type, Head(arrivals).content,
                                     FALSE, 0, b.next_id)),
                from_agent, Tail(arrivals))

\* transfer_with_state: the bus afterwards, the handoff sent, the messages
\* received after the sleep and the value returned
TransferWithStateOf(b, from_agent, to_agent, state, task, arrivals) ==
    LET handoff == CreateHandoff(from_agent, to_agent,
                                 [task_state |-> state,
                                  task_details |-> task,
                                  progress |-> Get(state, "progress", 0)],
                                 "task_transfer", b.next_id)
        sent == BusSend(Fresh(b), handoff)
        r == BusReceive(Arrive(sent, from_agent, arrivals), from_agent)
    IN [bus |-> r.bus,
        handoff |-> handoff,
        ack |-> r.messages,
        out |-> \E i \in 1..Len(r.messages) : IsAck(r.messages[i])]

AcceptHandoff(agent_id) ==
    LET r == AcceptHandoffOf(Bus, agent_id) IN
    /\ SetBus(r.bus)
    /\ call' = [op |-> "accept_handoff", agent |-> agent_id, drained |-> r.drained]
    /\ ret' = r.out

TransferWithState(from_agent, to_agent, state, task, arrivals) ==
    LET r == TransferWithStateOf(Bus, from_agent, to_agent, state, task, arrivals) IN
    /\ r.bus.next_id <= MaxMsgs + 1
    /\ SetBus(r.bus)
    /\ call' = [op |-> "transfer_with_state", from_agent |-> from_agent,
                to_agent |-> to_agent, handoff |-> r.handoff, ack |-> r.ack]
    /\ ret' = r.out

----------------------------------------------------------------------------
(* ConsensusManager; a confidence is kept in tenths, 9 for 0.9 *)

\* the vote request initiate_vote appends for one agent
VoteRequest(agent, topic_id, options) ==
    [agent |-> agent, topic |-> topic_id, options |-> options, status |-> "pending"]

\* initiate_vote: self.votes[topic_id] = [] and one request per agent
InitiateVoteOf(vs, topic_id, agents, options) ==
    Put(vs, topic_id, [i \in 1..Len(agents) |-> VoteRequest(agents[i], topic_id, options)])

CastSlotOnce(vote, selection, confidence) ==
    IF vote.status = "cast"
    THEN vote
    ELSE Put(Put(Put(vote, "status", "cast"), "selection", selection),
             "confidence", confidence)

\* submit_vote: the slot after status, selection and confidence are set
CastSlot(vote, selection, confidence) ==
    Put(Put(Put(vote, "status", "cast"), "selection", selection), "confidence", confidence)

SlotsWithForeignVote(slots, agent_id, selection, confidence) ==
    IF \E i \in 1..Len(slots) : slots[i].agent = agent_id
    THEN LET k == CHOOSE i \in 1..Len(slots) :
                      /\ slots[i].agent = agent_id
                      /\ \A j \in 1..(i - 1) : slots[j].agent # agent_id
         IN [slots EXCEPT ![k] = CastSlot(slots[k], selection, confidence)]
    ELSE Append(slots, [agent |-> agent_id, status |-> "cast", selection |-> selection,
                        confidence |-> confidence])

\* submit_vote: the loop that updates the first slot of agent_id and breaks
SlotsAfterVote(slots, agent_id, selection, confidence) ==
    IF \E i \in 1..Len(slots) : slots[i].agent = agent_id
    THEN LET k == CHOOSE i \in 1..Len(slots) :
                      /\ slots[i].agent = agent_id
                      /\ \A j \in 1..(i - 1) : slots[j].agent # agent_id
         IN [slots EXCEPT ![k] = CastSlot(slots[k], selection, confidence)]
    ELSE slots

TopicIgnored == [value |-> "None"]

\* raise ValueError(f"Unknown topic: {topic_id}")
UnknownTopic == [raised |-> "ValueError", message |-> "Unknown topic"]

\* calculate_weighted_consensus: the votes whose status is cast
CastVotes(slots) == SelectSeq(slots, LAMBDA v : v.status = "cast")

\* the keys of the dict selections, in insertion order: the selections of the
\* cast votes in the order of their first vote
RECURSIVE SelectionOrder(_)
SelectionOrder(cast) ==
    IF cast = <<>>
    THEN <<>>
    ELSE LET front == SelectionOrder(SubSeq(cast, 1, Len(cast) - 1))
             selection == cast[Len(cast)].selection
         IN IF \E i \in 1..Len(front) : front[i] = selection
            THEN front
            ELSE Append(front, selection)

\* sum(v["confidence"] for v in selection_votes)
RECURSIVE SumConfidence(_)
SumConfidence(selection_votes) ==
    IF selection_votes = <<>>
    THEN 0
    ELSE selection_votes[1].confidence + SumConfidence(Tail(selection_votes))

\* results[selection]; avg_confidence is kept as a fraction
OptionResult(selection_votes) ==
    [weighted_score |-> SumConfidence(selection_votes),
     avg_confidence |-> [num |-> SumConfidence(selection_votes),
                         den |-> Len(selection_votes)],
     vote_count |-> Len(selection_votes)]

LeastScored(keys, results) ==
    keys[CHOOSE i \in 1..Len(keys) :
             /\ \A j \in 1..Len(keys) :
                   results[keys[i]].weighted_score <= results[keys[j]].weighted_score
             /\ \A j \in 1..(i - 1) :
                   results[keys[j]].weighted_score > results[keys[i]].weighted_score]

LastScored(keys, results) ==
    keys[CHOOSE i \in 1..Len(keys) :
             /\ \A j \in 1..Len(keys) :
                   results[keys[i]].weighted_score >= results[keys[j]].weighted_score
             /\ \A j \in (i + 1)..Len(keys) :
                   results[keys[j]].weighted_score < results[keys[i]].weighted_score]

\* max(results.keys(), key=...): the first key with the largest weighted_score
Winner(keys, results) ==
    keys[CHOOSE i \in 1..Len(keys) :
             /\ \A j \in 1..Len(keys) :
                   results[keys[i]].weighted_score >= results[keys[j]].weighted_score
             /\ \A j \in 1..(i - 1) :
                   results[keys[j]].weighted_score < results[keys[i]].weighted_score]

NoVotesError == [raised |-> "ValueError", message |-> "No votes"]

\* return {"status": "no_votes", "result": None}
NoVotes == [value |-> [status |-> "no_votes", result |-> "None"]]

\* calculate_weighted_consensus: what it returns or raises
CalculateWeightedConsensusOf(vs, topic_id) ==
    IF topic_id \notin DOMAIN vs
    THEN UnknownTopic
    ELSE LET cast == CastVotes(vs[topic_id]) IN
         IF cast = <<>>
         THEN NoVotes
         ELSE LET keys == SelectionOrder(cast)
                  results == [s \in {keys[i] : i \in 1..Len(keys)} |->
                                 OptionResult(SelectSeq(cast, LAMBDA v : v.selection = s))]
                  winner == Winner(keys, results)
              IN [value |-> [status |-> "complete",
                             result |-> winner,
                             details |-> results,
                             consensus_strength |->
                                 [num |-> results[winner].weighted_score,
                                  den |-> Len(cast)]]]

InitiateVote(topic_id, agents, options) ==
    /\ votes' = InitiateVoteOf(votes, topic_id, agents, options)
    /\ call' = [op |-> "initiate_vote", topic_id |-> topic_id, agents |-> agents,
                options |-> options]
    /\ ret' = [value |-> "None"]

SubmitVote(topic_id, agent_id, selection, confidence) ==
    /\ IF topic_id \notin DOMAIN votes
       THEN /\ ret' = UnknownTopic
            /\ votes' = votes
       ELSE /\ ret' = [value |-> "None"]
            /\ votes' = Put(votes, topic_id,
                            SlotsAfterVote(votes[topic_id], agent_id, selection, confidence))
    /\ call' = [op |-> "submit_vote", topic_id |-> topic_id, agent_id |-> agent_id,
                selection |-> selection, confidence |-> confidence,
                slots_before |-> Get(votes, topic_id, <<>>)]

CalculateWeightedConsensus(topic_id) ==
    /\ ret' = CalculateWeightedConsensusOf(votes, topic_id)
    /\ call' = [op |-> "calculate_weighted_consensus", topic_id |-> topic_id]
    /\ votes' = votes

----------------------------------------------------------------------------
(* AgentFailureHandler *)

\* the cooldown of _activate_circuit_breaker
Cooldown == 60

\* the cap of the backoff delay
BackoffCap == 60

\* the default of the max_retries parameter
DefaultMaxRetries == 3

BackoffUncapped(n) == 2 ^ n

\* min(2 ** self.failure_counts[agent_id], 60)
Backoff(n) == Min(2 ^ n, BackoffCap)

\* _find_alternative_agent
FindAlternativeAgent(failed_agent) == "default_backup_agent"

\* _activate_circuit_breaker: the unlock time it stores
UnlockTime(t) == t + Cooldown

ShouldActivateOnce(count, threshold) == count = threshold

\* the test of handle_failure that opens the breaker
ShouldActivate(count, threshold) == count >= threshold

BreakerBlocksInclusive(t, unlock) == t <= unlock

\* the test of is_available that keeps the agent blocked
BreakerBlocks(t, unlock) == t < unlock

KeepCount(counts, a) == counts

\* is_available after the cooldown: self.failure_counts[agent_id] = 0
ResetAfterCooldown(counts, a) == Put(counts, a, 0)

\* the per-agent history before any call
\* fails: handle_failure calls; broken: a record_success came after a failure;
\* failed_at: the time of the last handle_failure; since: handle_failure calls
\* since is_available last reset the agent after a cooldown (-1: it never did)
FreshLog == [fails |-> 0, broken |-> FALSE, failed_at |-> 0, since |-> -1]

RECURSIVE SumFails(_)
SumFails(S) ==
    IF S = {} THEN 0
    ELSE LET a == CHOOSE x \in S : TRUE IN fh_log[a].fails + SumFails(S \ {a})

TotalFails == SumFails(FhAgents)

HandleFailure(a, err) ==
    LET count == Get(failure_counts, a, 0) + 1 IN
    /\ TotalFails < MaxFailures
    /\ failure_counts' = Put(failure_counts, a, count)
    /\ IF ShouldActivate(count, max_retries)
       THEN /\ circuit_breakers' = Put(circuit_breakers, a, UnlockTime(now))
            /\ ret' = [action |-> "reroute",
                       reason |-> "circuit_breaker_activated",
                       alternative |-> FindAlternativeAgent(a)]
       ELSE /\ circuit_breakers' = circuit_breakers
            /\ ret' = [action |-> "retry",
                       reason |-> err,
                       retry_count |-> count,
                       delay |-> Backoff(count)]
    /\ fh_log' = [fh_log EXCEPT ![a] = [fails |-> @.fails + 1,
                                        broken |-> @.broken,
                                        failed_at |-> now,
                                        since |-> IF @.since >= 0
                                                  THEN @.since + 1
                                                  ELSE @.since]]
    /\ call' = [op |-> "handle_failure", agent |-> a]
    /\ UNCHANGED <<now, max_retries>>
    /\ UNCHANGED <<busVars, workers, votes, threadVars>>

IsAvailable(a) ==
    /\ IF a \in DOMAIN circuit_breakers
       THEN IF BreakerBlocks(now, circuit_breakers[a])
            THEN /\ ret' = FALSE
                 /\ UNCHANGED <<failure_counts, circuit_breakers, fh_log>>
            ELSE /\ circuit_breakers' = Del(circuit_breakers, a)
                 /\ failure_counts' = ResetAfterCooldown(failure_counts, a)
                 /\ fh_log' = [fh_log EXCEPT ![a].since = 0]
                 /\ ret' = TRUE
       ELSE /\ ret' = TRUE
            /\ UNCHANGED <<failure_counts, circuit_breakers, fh_log>>
    /\ call' = [op |-> "is_available", agent |-> a]
    /\ UNCHANGED <<now, max_retries>>
    /\ UNCHANGED <<busVars, workers, votes, threadVars>>

RecordSuccess(a) ==
    /\ failure_counts' = Put(failure_counts, a, 0)
    /\ fh_log' = [fh_log EXCEPT ![a].broken = @ \/ fh_log[a].fails > 0]
    /\ call' = [op |-> "record_success", agent |-> a]
    /\ ret' = "None"
    /\ UNCHANGED <<now, max_retries, circuit_breakers>>
    /\ UNCHANGED <<busVars, workers, votes, threadVars>>

\* the clock moves between two operations
Tick ==
    /\ \E d \in TickSteps :
          /\ now + d <= MaxTime
          /\ now' = now + d
    /\ call' = [op |-> "tick"]
    /\ ret' = "None"
    /\ UNCHANGED fhVars
    /\ UNCHANGED <<busVars, workers, votes, threadVars>>

----------------------------------------------------------------------------

Init ==
    /\ inbox = EmptyDict
    /\ outbox = <<>>
    /\ message_history = <<>>
    /\ next_id = 1
    /\ delivered = [a \in BusAgents |-> <<>>]
    /\ n_sent = 0
    /\ workers = <<>>
    /\ votes = EmptyDict
    /\ lists = <<>>
    /\ slot = 0
    /\ threads = ThreadsInit
    /\ now = 0
    /\ max_retries \in Thresholds
    /\ failure_counts = EmptyDict
    /\ circuit_breakers = EmptyDict
    /\ fh_log = [a \in FhAgents |-> FreshLog]
    /\ call = NoCall
    /\ ret = "None"

FailureNext ==
    \/ \E a \in FhAgents : HandleFailure(a, "timeout")
    \/ \E a \in FhAgents : IsAvailable(a)
    \/ \E a \in FhAgents : RecordSuccess(a)
    \/ Tick

SpecFailure == Init /\ [][FailureNext]_vars

\* the priorities and kinds the callers of the bus use
Priorities == {0, 1}

BusNext ==
    \/ \E r \in BusAgents, p \in Priorities :
          /\ Send("w1", r, "request", [action |-> "ping"], FALSE, p)
          /\ UNCHANGED <<now, fhVars, workers, votes, threadVars>>
    \/ \E a \in BusAgents :
          /\ Receive(a)
          /\ UNCHANGED <<now, fhVars, workers, votes, threadVars>>
    \/ \E rs \in {<<"w1", "w2">>, <<"w2", "w2">>, <<"supervisor">>} :
          /\ Broadcast("supervisor", "alert", [note |-> "all"], rs)
          /\ UNCHANGED <<now, fhVars, workers, votes, threadVars>>

\* a handler constructed with the default max_retries
InitDefault == Init /\ max_retries = DefaultMaxRetries

SpecBus == InitDefault /\ [][BusNext]_vars

----------------------------------------------------------------------------
(* handle_failure and record_success for agent "w1" run by threads, one step
   per read or write of self.failure_counts and self.circuit_breakers; the
   code takes no lock *)

\* handle_failure, line 400, right side: self.failure_counts.get(agent_id, 0)
HandleFailureGet(h) ==
    /\ threads.handlers[h].pc = "line400get"
    /\ threads' = [threads EXCEPT !.handlers[h] =
                       [pc |-> "line400set",
                        count |-> Get(failure_counts, "w1", 0)]]
    /\ UNCHANGED <<failure_counts, circuit_breakers>>

\* handle_failure, line 400, the store: self.failure_counts[agent_id] = ... + 1
HandleFailureSet(h) ==
    /\ threads.handlers[h].pc = "line400set"
    /\ failure_counts' = Put(failure_counts, "w1", threads.handlers[h].count + 1)
    /\ threads' = [threads EXCEPT !.handlers[h].pc = "line403"]
    /\ UNCHANGED circuit_breakers

\* handle_failure, line 403: if self.failure_counts[agent_id] >= self.max_retries
HandleFailureTest(h) ==
    /\ threads.handlers[h].pc = "line403"
    /\ threads' = [threads EXCEPT !.handlers[h].pc =
                       IF ShouldActivate(failure_counts["w1"], max_retries)
                       THEN "line404" ELSE "done"]
    /\ UNCHANGED <<failure_counts, circuit_breakers>>

\* handle_failure, line 404: self._activate_circuit_breaker(agent_id)
HandleFailureActivate(h) ==
    /\ threads.handlers[h].pc = "line404"
    /\ circuit_breakers' = Put(circuit_breakers, "w1", UnlockTime(now))
    /\ threads' = [threads EXCEPT !.handlers[h].pc = "done"]
    /\ UNCHANGED failure_counts

\* record_success, line 439: self.failure_counts[agent_id] = 0
RecordSuccessSet ==
    /\ threads.recorder.pc = "line439"
    /\ failure_counts' = Put(failure_counts, "w1", 0)
    /\ threads' = [threads EXCEPT !.recorder.pc = "done"]
    /\ UNCHANGED circuit_breakers

FailureThreadsNext ==
    \/ \E h \in Handlers :
          /\ HandleFailureGet(h)
          /\ UNCHANGED <<now, max_retries, fh_log, workers, votes, busVars,
                         lists, slot, call, ret>>
    \/ \E h \in Handlers :
          /\ HandleFailureSet(h)
          /\ UNCHANGED <<now, max_retries, fh_log, workers, votes, busVars,
                         lists, slot, call, ret>>
    \/ \E h \in Handlers :
          /\ HandleFailureTest(h)
          /\ UNCHANGED <<now, max_retries, fh_log, workers, votes, busVars,
                         lists, slot, call, ret>>
    \/ \E h \in Handlers :
          /\ HandleFailureActivate(h)
          /\ UNCHANGED <<now, max_retries, fh_log, workers, votes, busVars,
                         lists, slot, call, ret>>
    \/ /\ RecordSuccessSet
       /\ UNCHANGED <<now, max_retries, fh_log, workers, votes, busVars,
                      lists, slot, call, ret>>

SpecFailureThreads == InitDefault /\ [][FailureThreadsNext]_vars

----------------------------------------------------------------------------
(* submit_vote and calculate_weighted_consensus for topic "t1" run by threads
   after initiate_vote, one step per write of a field of a slot; the code
   takes no lock *)

\* the arguments of the submit_vote call of each voter thread
VoterBallot(v) ==
    IF v = 1 THEN [agent_id |-> "a1", selection |-> "A", confidence |-> 9]
    ELSE IF v = 2 THEN [agent_id |-> "a1", selection |-> "B", confidence |-> 5]
    ELSE [agent_id |-> "a2", selection |-> "A", confidence |-> 5]

\* vote["selection"] of line 351 or v["confidence"] of line 359 on a slot
\* without that key
MissingKey(key) == [raised |-> "KeyError", message |-> key]

\* calculate_weighted_consensus on slots whose fields may not all be written
TallyOf(vs, topic_id) ==
    IF topic_id \notin DOMAIN vs
    THEN UnknownTopic
    ELSE LET cast == CastVotes(vs[topic_id]) IN
         IF \E i \in 1..Len(cast) : "selection" \notin DOMAIN cast[i]
         THEN MissingKey("selection")
         ELSE IF \E i \in 1..Len(cast) : "confidence" \notin DOMAIN cast[i]
         THEN MissingKey("confidence")
         ELSE CalculateWeightedConsensusOf(vs, topic_id)

\* the main thread calls initiate_vote before the other threads start
InitiatorRuns ==
    /\ threads.initiator.pc = "line302"
    /\ votes' = InitiateVoteOf(votes, "t1", <<"a1", "a2">>, <<"A", "B">>)
    /\ threads' = [threads EXCEPT !.initiator.pc = "done"]

\* submit_vote, lines 317 and 327-328: the topic is known; find the first slot
\* of agent_id
VoteFind(v) ==
    /\ threads.initiator.pc = "done"
    /\ threads.voters[v].pc = "line317"
    /\ LET slots == Get(votes, "t1", <<>>)
           mine == {i \in 1..Len(slots) : slots[i].agent = VoterBallot(v).agent_id}
       IN threads' = [threads EXCEPT !.voters[v] =
                         IF "t1" \notin DOMAIN votes \/ mine = {}
                         THEN [pc |-> "done", k |-> 0]
                         ELSE [pc |-> "line329",
                               k |-> CHOOSE i \in mine : \A j \in mine : i <= j]]
    /\ votes' = votes

\* submit_vote, line 329: vote["status"] = "cast"
VoteWriteStatus(v) ==
    /\ threads.voters[v].pc = "line329"
    /\ votes' = [votes EXCEPT !["t1"][threads.voters[v].k] =
                     Put(@, "status", "cast")]
    /\ threads' = [threads EXCEPT !.voters[v].pc = "line330"]

\* submit_vote, line 330: vote["selection"] = selection
VoteWriteSelection(v) ==
    /\ threads.voters[v].pc = "line330"
    /\ votes' = [votes EXCEPT !["t1"][threads.voters[v].k] =
                     Put(@, "selection", VoterBallot(v).selection)]
    /\ threads' = [threads EXCEPT !.voters[v].pc = "line331"]

\* submit_vote, line 331: vote["confidence"] = confidence
VoteWriteConfidence(v) ==
    /\ threads.voters[v].pc = "line331"
    /\ votes' = [votes EXCEPT !["t1"][threads.voters[v].k] =
                     Put(@, "confidence", VoterBallot(v).confidence)]
    /\ threads' = [threads EXCEPT !.voters[v].pc = "done"]

\* calculate_weighted_consensus("t1") run between two writes of the voters
TallyRuns ==
    /\ threads.initiator.pc = "done"
    /\ threads.tally.pc = "line340"
    /\ threads' = [threads EXCEPT !.tally =
                       [pc |-> "done",
                        seen |-> CastVotes(votes["t1"]),
                        out |-> TallyOf(votes, "t1")]]
    /\ votes' = votes

VoteThreadsNext ==
    \/ /\ InitiatorRuns
       /\ UNCHANGED <<now, fhVars, workers, busVars, lists, slot, call, ret>>
    \/ \E v \in Voters :
          /\ VoteFind(v)
          /\ UNCHANGED <<now, fhVars, workers, busVars, lists, slot, call, ret>>
    \/ \E v \in Voters :
          /\ VoteWriteStatus(v)
          /\ UNCHANGED <<now, fhVars, workers, busVars, lists, slot, call, ret>>
    \/ \E v \in Voters :
          /\ VoteWriteSelection(v)
          /\ UNCHANGED <<now, fhVars, workers, busVars, lists, slot, call, ret>>
    \/ \E v \in Voters :
          /\ VoteWriteConfidence(v)
          /\ UNCHANGED <<now, fhVars, workers, busVars, lists, slot, call, ret>>
    \/ /\ TallyRuns
       /\ UNCHANGED <<now, fhVars, workers, busVars, lists, slot, call, ret>>

SpecVoteThreads == InitDefault /\ [][VoteThreadsNext]_vars

\* the messages agents send around a handoff from w1 to w2
HandoffSends ==
    {[sender |-> "w1", receiver |-> "w2", message_type |-> "handover",
      content |-> [handoff_reason |-> "manual"], priority |-> 1],
     [sender |-> "supervisor", receiver |-> "w2", message_type |-> "request",
      content |-> [action |-> "ping"], priority |-> 0],
     [sender |-> "w2", receiver |-> "w1", message_type |-> "response",
      content |-> [status |-> "handoff_received"], priority |-> 0],
     [sender |-> "supervisor", receiver |-> "w1", message_type |-> "response",
      content |-> [status |-> "handoff_received"], priority |-> 0]}

\* what reaches the source while transfer_with_state sleeps
Arrivals ==
    {<<>>,
     <<[sender |-> "w2", message_type |-> "response",
        content |-> [status |-> "handoff_received"]]>>,
     <<[sender |-> "supervisor", message_type |-> "response",
        content |-> [status |-> "handoff_received"]]>>,
     <<[sender |-> "w2", message_type |-> "response",
        content |-> [status |-> "busy"]]>>}

HandoffNext ==
    \/ \E m \in HandoffSends :
          /\ Send(m.sender, m.receiver, m.message_type, m.content, FALSE, m.priority)
          /\ UNCHANGED <<now, fhVars, workers, votes, threadVars>>
    \/ \E a \in {"w1", "w2"} :
          /\ Receive(a)
          /\ UNCHANGED <<now, fhVars, workers, votes, threadVars>>
    \/ \E a \in {"w1", "w2"} :
          /\ AcceptHandoff(a)
          /\ UNCHANGED <<now, fhVars, workers, votes, threadVars>>
    \/ \E arrivals \in Arrivals :
          /\ TransferWithState("w1", "w2", [progress |-> 5], [id |-> "t1"], arrivals)
          /\ UNCHANGED <<now, fhVars, workers, votes, threadVars>>

SpecHandoff == InitDefault /\ [][HandoffNext]_vars

ThreadsNext ==
    \/ \E s \in Senders :
          /\ SendCheck(s)
          /\ UNCHANGED <<now, fhVars, workers, votes, busVars, call, ret>>
    \/ \E s \in Senders :
          /\ SendCreate(s)
          /\ UNCHANGED <<now, fhVars, workers, votes, busVars, call, ret>>
    \/ \E s \in Senders :
          /\ SendLookup(s)
          /\ UNCHANGED <<now, fhVars, workers, votes, busVars, call, ret>>
    \/ \E s \in Senders :
          /\ SendAppend(s)
          /\ UNCHANGED <<now, fhVars, workers, votes, busVars, call, ret>>
    \/ /\ ReceiveGet
       /\ UNCHANGED <<now, fhVars, workers, votes, busVars, call, ret>>
    \/ /\ ReceiveClear
       /\ UNCHANGED <<now, fhVars, workers, votes, busVars, call, ret>>
    \/ /\ ReceiveReturn
       /\ UNCHANGED <<now, fhVars, workers, votes, busVars, call, ret>>
    \/ /\ CallerReads
       /\ UNCHANGED <<now, fhVars, workers, votes, busVars, call, ret>>

SpecThreads == InitDefault /\ [][ThreadsNext]_vars

\* the topics, invitations and votes given to the consensus manager
Topics == {"t1", "t2"}

Invitations ==
    {[topic_id |-> "t1", agents |-> <<"a1", "a2", "a3">>],
     [topic_id |-> "t1", agents |-> <<"a1", "a2">>],
     [topic_id |-> "t1", agents |-> <<>>],
     [topic_id |-> "t2", agents |-> <<"a2">>]}

VoteOptions == <<"A", "B">>

Ballots ==
    {[agent_id |-> "a1", selection |-> "A", confidence |-> 9],
     [agent_id |-> "a1", selection |-> "B", confidence |-> 5],
     [agent_id |-> "a2", selection |-> "A", confidence |-> 5],
     [agent_id |-> "a2", selection |-> "B", confidence |-> 9],
     [agent_id |-> "a3", selection |-> "B", confidence |-> 8],
     [agent_id |-> "a3", selection |-> "A", confidence |-> 8]}

ConsensusNext ==
    \/ \E inv \in Invitations :
          /\ InitiateVote(inv.topic_id, inv.agents, VoteOptions)
          /\ UNCHANGED <<now, fhVars, workers, busVars, threadVars>>
    \/ \E t \in Topics, b \in Ballots :
          /\ SubmitVote(t, b.agent_id, b.selection, b.confidence)
          /\ UNCHANGED <<now, fhVars, workers, busVars, threadVars>>
    \/ \E t \in Topics :
          /\ CalculateWeightedConsensus(t)
          /\ UNCHANGED <<now, fhVars, workers, busVars, threadVars>>

SpecConsensus == InitDefault /\ [][ConsensusNext]_vars

\* the workers and tasks of a workflow run
WfWorkers == {"w1", "w2", "w3"}

WfCaps == {"search", "analyze", "synthesize"}

WfTasks ==
    {[type |-> "research", id |-> "t1", priority |-> 1],
     [type |-> "create", description |-> "write"],
     [type |-> "other", description |-> "do it", id |-> "t2"],
     [priority |-> 2]}

WorkflowNext ==
    \/ \E w \in WfWorkers :
          /\ RegisterWorker(w, WfCaps)
          /\ UNCHANGED <<now, fhVars, votes, threadVars>>
    \/ \E task \in WfTasks :
          /\ RunWorkflow(task)
          /\ UNCHANGED <<now, fhVars, votes, threadVars>>
    \/ \E task \in WfTasks :
          /\ Decompose(task)
          /\ UNCHANGED <<now, fhVars, votes, threadVars>>
    \/ \E ok \in BOOLEAN :
          /\ Send("w1", SupervisorName, "response", [success |-> ok, summary |-> "done"],
                  FALSE, 0)
          /\ UNCHANGED <<now, fhVars, workers, votes, threadVars>>

SpecWorkflow == InitDefault /\ [][WorkflowNext]_vars

\* a supervisor and a failure handler over the same agents
SupervisedNext ==
    \/ \E w \in FhAgents :
          /\ RegisterWorker(w, {"search"})
          /\ UNCHANGED <<now, fhVars, votes, threadVars>>
    \/ \E a \in FhAgents : HandleFailure(a, "timeout")
    \/ \E a \in FhAgents : IsAvailable(a)
    \/ /\ SelectWorker([type |-> "search", id |-> "s1"])
       /\ UNCHANGED <<now, fhVars, votes, threadVars>>
    \/ /\ RunWorkflow([type |-> "research", id |-> "t1", priority |-> 1])
       /\ UNCHANGED <<now, fhVars, votes, threadVars>>

SpecSupervised == InitDefault /\ [][SupervisedNext]_vars

\* result lists of up to this length are aggregated
MaxResults == 3

\* the results aggregated: with and without the success and summary keys
ResultKinds ==
    {[success |-> TRUE, summary |-> "a"],
     [success |-> FALSE, summary |-> "b"],
     [success |-> TRUE],
     [summary |-> "c"],
     [success |-> TRUE, summary |-> "d"]}

ResultLists == UNION {[1..n -> ResultKinds] : n \in 0..MaxResults}

AggregateNext ==
    \E results \in ResultLists :
        /\ Aggregate(results)
        /\ UNCHANGED <<now, fhVars, votes, threadVars>>

SpecAggregate == InitDefault /\ [][AggregateNext]_vars

\* the workers, capability lists, tasks and subtasks given to the supervisor
SupWorkers == {"w1", "w2"}

CapSets == {{"search"}, {"execute"}}

Tasks ==
    {[type |-> "research", id |-> "t1", priority |-> 1],
     [description |-> "do it"]}

Subtasks ==
    {[type |-> "search", id |-> "s1", priority |-> 1],
     [type |-> "analyze", description |-> "Analyze findings",
      parent_task |-> "t1", priority |-> 1],
     [description |-> "do it"]}

SupervisorNext ==
    \/ \E w \in SupWorkers, caps \in CapSets :
          /\ RegisterWorker(w, caps)
          /\ UNCHANGED <<now, fhVars, votes, threadVars>>
    \/ \E subtask \in Subtasks :
          /\ SelectWorker(subtask)
          /\ UNCHANGED <<now, fhVars, votes, threadVars>>
    \/ \E subtask \in Subtasks, w \in SupWorkers :
          /\ AssignTask(subtask, w)
          /\ UNCHANGED <<now, fhVars, votes, threadVars>>
    \/ \E task \in Tasks :
          /\ RunWorkflow(task)
          /\ UNCHANGED <<now, fhVars, votes, threadVars>>
    \/ \E ok \in BOOLEAN :
          /\ Send("w1", SupervisorName, "response", [success |-> ok, summary |-> "done"],
                  FALSE, 0)
          /\ UNCHANGED <<now, fhVars, workers, votes, threadVars>>

SpecSupervisor == InitDefault /\ [][SupervisorNext]_vars

----------------------------------------------------------------------------
(* Message bus: the claims *)

\* the agent of the last call is a, and the call was op
Called(op, a) == call.op = op /\ call.agent = a

\* the messages sent to a so far, in send order
SentTo(a) == SelectSeq(message_history, LAMBDA m : m.receiver = a)

\* the messages sent to a that no receive(a) has returned yet
PendingFor(a) == SubSeq(SentTo(a), Len(delivered[a]) + 1, Len(SentTo(a)))

\* C1: receive(a) returns the messages sent to a since the last receive(a), in
\* send order, whatever their priority and whatever was sent to others in
\* between; a receive(a) right after a receive(a) returns the empty list, and
\* so does receive on an agent that was never addressed.
C1_FifoDrain ==
    [][\A a \in BusAgents :
          (call'.op = "receive" /\ call'.agent = a)
          => /\ ret' = PendingFor(a)
             /\ Called("receive", a) => ret' = <<>>
             /\ a \notin DOMAIN inbox => ret' = <<>>]_vars

\* a receive returned two messages in send order although the later one has the
\* higher priority and a message to another agent was sent between them
C1_Witness ==
    /\ call.op = "receive"
    /\ Len(ret) = 2
    /\ ret[1].priority < ret[2].priority
    /\ ret[1].message_id + 1 < ret[2].message_id

\* C2: for each agent a, the batches receive(a) returned so far followed by a's
\* mailbox are exactly the messages sent to a, each once and in send order, and
\* every message in a's mailbox is addressed to a.
C2_NoLossNoDuplication ==
    /\ DOMAIN inbox \subseteq BusAgents
    /\ \A a \in BusAgents :
          /\ delivered[a] \o Get(inbox, a, <<>>) = SentTo(a)
          /\ \A i \in 1..Len(Get(inbox, a, <<>>)) : inbox[a][i].receiver = a
    /\ \A i, j \in 1..Len(message_history) :
          message_history[i].message_id = message_history[j].message_id => i = j

\* an agent that has received one batch and has two more messages queued
C2_Witness ==
    \E a \in BusAgents :
        /\ delivered[a] # <<>>
        /\ Len(Get(inbox, a, <<>>)) = 2

\* C3: send appends the message to the receiver's mailbox, to the outbox and to
\* the history and leaves the other mailboxes alone, also for a receiver never
\* seen before; receive changes neither outbox nor history; outbox equals
\* history, which only grows and is as long as the number of sends.
C3_SendFrame ==
    /\ [](outbox = message_history /\ Len(message_history) = n_sent)
    /\ [][/\ call'.op = "send"
              => LET m == call'.message IN
                 /\ inbox' = Put(inbox, m.receiver,
                                 Append(Get(inbox, m.receiver, <<>>), m))
                 /\ outbox' = Append(outbox, m)
                 /\ message_history' = Append(message_history, m)
                 /\ n_sent' = n_sent + 1
           /\ call'.op = "receive" => UNCHANGED <<outbox, message_history, n_sent>>
           /\ Len(message_history') >= Len(message_history)
           /\ SubSeq(message_history', 1, Len(message_history)) = message_history]_vars

\* a send to a receiver that had no mailbox yet, after earlier traffic
C3_Witness ==
    /\ call.op = "send"
    /\ Len(SentTo(call.message.receiver)) = 1
    /\ Len(message_history) > 1
    /\ inbox[call.message.receiver] = <<call.message>>

----------------------------------------------------------------------------
(* Supervisor: the claims *)

\* some worker of ws is available
SomeAvailable(ws) == \E i \in 1..Len(ws) : ws[i].status = "available"

\* r is what select_worker may answer over the workers ws: a registered worker
\* that is available, and an error only when no worker is available
AvailableChoice(ws, r) ==
    /\ "value" \in DOMAIN r
       => \E i \in 1..Len(ws) : ws[i].wid = r.value /\ ws[i].status = "available"
    /\ SomeAvailable(ws) => "value" \in DOMAIN r

\* C10: select_worker, called directly or by run_workflow, returns a registered
\* worker whose status is available, never a busy one; and it fails only when
\* no worker is available, so without a capable worker it falls back to some
\* available one.
C10_SelectsAvailable ==
    /\ call.op = "select_worker" => AvailableChoice(workers, ret)
    /\ call.op = "run_workflow"
       => \A i \in 1..Len(call.picks) :
              AvailableChoice(call.picks[i].workers, call.picks[i].result)

\* the only worker with the capability is busy and select_worker fell back to
\* the available one without it
C10_Witness ==
    /\ call.op = "select_worker"
    /\ "value" \in DOMAIN ret
    /\ \E i, j \in 1..Len(workers) :
          /\ workers[i].status = "busy"
          /\ Get(call.subtask, "type", "general") \in workers[i].capabilities
          /\ workers[j].wid = ret.value
          /\ Get(call.subtask, "type", "general") \notin workers[j].capabilities

\* the worker the claim describes: a candidate (capable and available when
\* some worker is, else available) with the fewest tasks_completed, and the
\* first such in registration order
PreferredChoice(ws, subtask, r) ==
    "value" \in DOMAIN r
    => LET cap == Get(subtask, "type", "general")
           Avail(i) == ws[i].status = "available"
           Capable(i) == Avail(i) /\ cap \in ws[i].capabilities
           Cand(i) == IF \E c \in 1..Len(ws) : Capable(c) THEN Capable(i) ELSE Avail(i)
       IN \E k \in 1..Len(ws) :
              /\ ws[k].wid = r.value
              /\ Cand(k)
              /\ \A j \in 1..Len(ws) :
                    Cand(j) => ws[k].tasks_completed <= ws[j].tasks_completed
              /\ \A j \in 1..(k - 1) :
                    Cand(j) => ws[j].tasks_completed > ws[k].tasks_completed

\* C11: whenever an available worker has the required capability the worker
\* select_worker returns has it; the returned worker has the minimum
\* tasks_completed among the candidates; and the choice is determined by the
\* registered workers, their order and the subtask: it is the first such
\* candidate in registration order.
C11_PreferenceAndTieBreak ==
    /\ call.op = "select_worker" => PreferredChoice(workers, call.subtask, ret)
    /\ call.op = "run_workflow"
       => \A i \in 1..Len(call.picks) :
              PreferredChoice(call.picks[i].workers, call.picks[i].subtask,
                              call.picks[i].result)

\* the first registered worker is available without the capability, and
\* select_worker returned the second, which has it
C11_Witness ==
    /\ call.op = "select_worker"
    /\ "value" \in DOMAIN ret
    /\ Len(workers) = 2
    /\ workers[1].status = "available"
    /\ Get(call.subtask, "type", "general") \notin workers[1].capabilities
    /\ Get(call.subtask, "type", "general") \in workers[2].capabilities
    /\ ret.value = workers[2].wid

\* select_worker failed exactly when no worker of ws is available, and with
\* ValueError("No available workers")
FailsIffNone(ws, r) ==
    /\ "raised" \in DOMAIN r <=> ~SomeAvailable(ws)
    /\ "raised" \in DOMAIN r
       => r = [raised |-> "ValueError", message |-> "No available workers"]

\* C12: select_worker fails with "No available workers" exactly when no
\* registered worker is available; when that happens for a subtask inside
\* run_workflow, run_workflow ends with that error and returns no result.
C12_NoAvailablePropagates ==
    /\ call.op = "select_worker" => FailsIffNone(workers, ret)
    /\ call.op = "run_workflow"
       => \A i \in 1..Len(call.picks) :
              /\ FailsIffNone(call.picks[i].workers, call.picks[i].result)
              /\ "raised" \in DOMAIN call.picks[i].result
                 => /\ ret = call.picks[i].result
                    /\ "value" \notin DOMAIN ret
                    /\ i = Len(call.picks)

\* run_workflow with two registered workers, both busy, ended with the error
C12_Witness ==
    /\ call.op = "run_workflow"
    /\ Len(workers) = 2
    /\ "raised" \in DOMAIN ret
    /\ ret.message = "No available workers"

\* C13: assign_task with a worker id that is not registered fails with
\* ValueError("Unknown worker") and changes no worker record, no mailbox,
\* not the outbox and not the history.
C13_UnknownWorkerChangesNothing ==
    [][(call'.op = "assign_task" /\ IndexOf(workers, call'.worker_id) = 0)
       => /\ ret' = [raised |-> "ValueError", message |-> "Unknown worker"]
          /\ UNCHANGED <<workers, inbox, outbox, message_history>>]_vars

\* assign_task failed on an unknown worker while another worker is registered
\* and messages have been sent
C13_Witness ==
    /\ call.op = "assign_task"
    /\ "raised" \in DOMAIN ret
    /\ ret.message = "Unknown worker"
    /\ workers # <<>>
    /\ message_history # <<>>

\* the REQUEST assign_task sends for subtask to worker w
IsRequestFor(m, w, subtask) ==
    /\ m.sender = SupervisorName
    /\ m.receiver = w
    /\ m.message_type = "request"
    /\ m.requires_response = TRUE
    /\ m.priority = Get(subtask, "priority", 0)
    /\ m.content.task = subtask

\* C14: for every registered worker and every subtask assign_task succeeds, and
\* afterwards the worker is busy, its current_task is the subtask's id and the
\* last message of its mailbox is the supervisor's REQUEST with
\* requires_response true and the subtask's priority; and no worker is busy
\* without a REQUEST sent to it.
C14_AssignAllOrNothing ==
    /\ (call.op = "assign_task" /\ IndexOf(workers, call.worker_id) # 0)
       => /\ "value" \in DOMAIN ret
          /\ LET w == workers[IndexOf(workers, call.worker_id)]
                 box == Get(inbox, call.worker_id, <<>>)
             IN /\ w.status = "busy"
                /\ w.current_task = call.subtask.id
                /\ box # <<>>
                /\ IsRequestFor(box[Len(box)], call.worker_id, call.subtask)
    /\ \A i \in 1..Len(workers) :
          workers[i].status = "busy"
          => \E k \in 1..Len(message_history) :
                 /\ message_history[k].sender = SupervisorName
                 /\ message_history[k].receiver = workers[i].wid
                 /\ message_history[k].message_type = "request"

\* C18: after register_worker(w, caps) the record of w has capabilities caps,
\* status available and no current_task, whatever w was before; the same call
\* made again changes nothing; the records of the other workers are unchanged;
\* and no step removes a worker record.
C18_RegisterOverwrites ==
    [][/\ call'.op = "register_worker"
          => LET w == call'.worker_id
                 k == IndexOf(workers', w)
             IN /\ k # 0
                /\ workers'[k].capabilities = call'.capabilities
                /\ workers'[k].status = "available"
                /\ workers'[k].current_task = "None"
                /\ \A j \in 1..Len(workers') : (j # k) => workers'[j].wid # w
                /\ \A i \in 1..Len(workers) :
                      workers[i].wid # w
                      => \E j \in 1..Len(workers') : workers'[j] = workers[i]
                /\ Len(workers') = Len(workers) + (IF IndexOf(workers, w) = 0 THEN 1 ELSE 0)
                /\ call' = call => workers' = workers
       /\ \A i \in 1..Len(workers) : IndexOf(workers', workers[i].wid) # 0]_vars

\* a worker that was sent a task was registered again: it is available, with
\* no current task, and the other worker is still registered
C18_Witness ==
    /\ call.op = "register_worker"
    /\ Len(workers) = 2
    /\ workers[1].wid = call.worker_id
    /\ workers[1].status = "available"
    /\ workers[1].current_task = "None"
    /\ \E k \in 1..Len(message_history) :
          /\ message_history[k].receiver = call.worker_id
          /\ message_history[k].message_type = "request"

----------------------------------------------------------------------------
(* Failure handler: the claims *)

\* C4: after exactly max_retries handle_failure calls for an agent, none of them
\* separated from the next by a record_success, is_available(agent) returns
\* false while now < (time of the last failure) + Cooldown and true from then on.
C4_BreakerOpensAndExpires ==
    \A a \in FhAgents :
        (/\ Called("is_available", a)
         /\ fh_log[a].fails = max_retries
         /\ ~fh_log[a].broken)
        => (ret = FALSE <=> now < fh_log[a].failed_at + Cooldown)

\* the default handler: the third failure opened the breaker, the cooldown has
\* passed and is_available answered true
C4_Witness ==
    \E a \in FhAgents :
        /\ Called("is_available", a)
        /\ max_retries = DefaultMaxRetries
        /\ fh_log[a].fails = max_retries
        /\ ~fh_log[a].broken
        /\ now >= fh_log[a].failed_at + Cooldown
        /\ ret = TRUE

\* C5: for every agent, a breaker that is set and not expired implies
\* failure_count >= threshold.
C5_BreakerImpliesCount ==
    \A a \in DOMAIN circuit_breakers :
        now < circuit_breakers[a] => Get(failure_counts, a, 0) >= max_retries

\* the delay the claim describes: doubling from 2, never above 60
RECURSIVE Doubling(_)
Doubling(n) ==
    IF n <= 1 THEN 2 ELSE Min(2 * Doubling(n - 1), 60)

\* C6: handle_failure raises failure_count by exactly one; when the new count
\* has reached the threshold it sets breaker_until = now + Cooldown and returns
\* reroute with an alternative; otherwise it leaves the breaker alone and
\* returns retry with retry_count = new count and a delay that doubles with each
\* failure and never exceeds 60.
C6_HandleFailureDecision ==
    [][\A a \in FhAgents :
          (call'.op = "handle_failure" /\ call'.agent = a
             /\ failure_counts' # failure_counts)
          => LET n == Get(failure_counts, a, 0) + 1 IN
             /\ failure_counts' = Put(failure_counts, a, n)
             /\ IF n >= max_retries
                THEN /\ circuit_breakers' = Put(circuit_breakers, a, now + 60)
                     /\ ret'.action = "reroute"
                     /\ ret'.alternative = "default_backup_agent"
                ELSE /\ circuit_breakers' = circuit_breakers
                     /\ ret'.action = "retry"
                     /\ ret'.retry_count = n
                     /\ ret'.delay = Doubling(n)
                     /\ ret'.delay <= 60]_vars

\* a retry whose delay was cut to 60 (the sixth failure under threshold 7)
C6_Witness ==
    /\ call.op = "handle_failure"
    /\ ret.action = "retry"
    /\ ret.retry_count = 6
    /\ ret.delay = 60

\* C7: is_available(agent) returns false only when the agent is Open
\* (failure_count >= threshold, breaker set, now < breaker_until) and true in
\* every other state.
C7_FailOpen ==
    \A a \in FhAgents :
        Called("is_available", a)
        => (ret = FALSE <=>
              /\ a \in DOMAIN circuit_breakers
              /\ now < circuit_breakers[a]
              /\ Get(failure_counts, a, 0) >= max_retries)

\* C8: right after record_success(agent) the agent is Healthy: failure_count is
\* 0 and no breaker is active, so is_available(agent) would return true.
C8_SuccessMakesHealthy ==
    \A a \in FhAgents :
        Called("record_success", a)
        => /\ Get(failure_counts, a, 0) = 0
           /\ ~(a \in DOMAIN circuit_breakers /\ now < circuit_breakers[a])

\* C9 as stated (for thresholds above 1, where a count of 1 means retry): once
\* the breaker has expired, the next handle_failure returns retry with
\* retry_count 1, whether or not is_available was called since the expiry.
C9_ResetOnExpiryUnconditional ==
    [][\A a \in FhAgents :
          (/\ call'.op = "handle_failure" /\ call'.agent = a
           /\ failure_counts' # failure_counts
           /\ max_retries > 1
           /\ \/ fh_log[a].since = 0
              \/ a \in DOMAIN circuit_breakers /\ now >= circuit_breakers[a])
          => (ret'.action = "retry" /\ ret'.retry_count = 1)]_vars

\* C9 amended: once is_available(agent) has been called at now >= breaker_until,
\* the count restarts from 0: the breaker stays closed until max_retries new
\* failures have come, and the first of them returns retry with retry_count 1
\* (reroute when the threshold is 1).
C9_ResetOnAvailabilityCheck ==
    /\ [](\A a \in FhAgents :
            (fh_log[a].since >= 0 /\ fh_log[a].since < max_retries)
            => /\ a \notin DOMAIN circuit_breakers
               /\ Get(failure_counts, a, 0) <= fh_log[a].since)
    /\ [][\A a \in FhAgents :
            (/\ call'.op = "handle_failure" /\ call'.agent = a
             /\ failure_counts' # failure_counts
             /\ fh_log[a].since = 0)
            => IF max_retries > 1
               THEN ret'.action = "retry" /\ ret'.retry_count = 1
               ELSE ret'.action = "reroute"]_vars

\* the first failure after an expired breaker was cleared by is_available
C9_Witness ==
    \E a \in FhAgents :
        /\ Called("handle_failure", a)
        /\ max_retries = DefaultMaxRetries
        /\ fh_log[a].since = 1
        /\ fh_log[a].fails = max_retries + 1
        /\ ret.action = "retry"
        /\ ret.retry_count = 1

----------------------------------------------------------------------------
(* Workflow, aggregation and consensus: the claims *)

\* the workers of ws whose status is available
AvailableCount(ws) == Cardinality({i \in 1..Len(ws) : ws[i].status = "available"})

\* the REQUESTs of the supervisor, in send order
Dispatches ==
    SelectSeq(message_history,
              LAMBDA m : m.sender = SupervisorName /\ m.message_type = "request")

\* C15: run_workflow on a research task with at least three available workers
\* produces the subtasks search, analyze, synthesize in that order, each with
\* the parent's id and priority, sends one REQUEST per subtask in that order
\* and returns a result.
C15_ResearchDispatch ==
    (/\ call.op = "run_workflow"
     /\ Get(call.task, "type", "general") = "research"
     /\ AvailableCount(call.picks[1].workers) >= 3)
    => /\ "value" \in DOMAIN ret
       /\ Len(call.picks) = 3
       /\ \A i \in 1..3 :
             /\ call.picks[i].subtask.type = <<"search", "analyze", "synthesize">>[i]
             /\ call.picks[i].subtask.parent_task = call.task.id
             /\ call.picks[i].subtask.priority = call.task.priority
       /\ Len(Dispatches) >= 3
       /\ \A i \in 1..3 :
             Dispatches[Len(Dispatches) - 3 + i].content.task = call.picks[i].subtask

\* the number of results whose success is true
SuccessCount(results) ==
    Cardinality({i \in 1..Len(results) : Get(results[i], "success", FALSE) = TRUE})

\* C16: a run_workflow in which no select_worker failed returns task,
\* subtask_results, final_result = aggregate_results(subtask_results) and
\* success, which is true exactly when 5 * successful >= 4 * total; with no
\* result collected success is false.
C16_WorkflowResult ==
    (/\ call.op = "run_workflow"
     /\ \A i \in 1..Len(call.picks) : "value" \in DOMAIN call.picks[i].result)
    => /\ "value" \in DOMAIN ret
       /\ ret.value.task = call.task
       /\ ret.value.final_result = AggregateResults(ret.value.subtask_results)
       /\ ret.value.success
          <=> (/\ ret.value.subtask_results # <<>>
               /\ 5 * SuccessCount(ret.value.subtask_results)
                  >= 4 * Len(ret.value.subtask_results))

\* the summaries of a list of results, "" where a result has none
SummariesOf(results) == [i \in 1..Len(results) |-> Get(results[i], "summary", "")]

\* the quality score is successful / total, 0 for the empty list, within 0..1
ScoreIsRatio(results, score) ==
    /\ IF results = <<>>
       THEN score.num = 0
       ELSE score.num * Len(results) = SuccessCount(results) * score.den
    /\ score.den > 0
    /\ 0 <= score.num
    /\ score.num <= score.den

\* C17: aggregate_results returns quality_score = successful / total for every
\* list, 0 for the empty list, so within 0..1; the summary is the summaries of
\* all the results joined in input order with the separator.
C17_SummaryOfAll ==
    call.op = "aggregate_results"
    => /\ ScoreIsRatio(call.subtask_results, ret.quality_score)
       /\ ret.summary = Join(SummariesOf(call.subtask_results), " | ")

\* C17 amended: quality_score as claimed; the summary joins, in input order and
\* with " | ", the summaries of the results whose success is true only ("" for
\* one without a summary); the results are returned as given.
C17_SummaryOfSuccessful ==
    call.op = "aggregate_results"
    => /\ ScoreIsRatio(call.subtask_results, ret.quality_score)
       /\ ret.results = call.subtask_results
       /\ ret.summary
          = Join(SummariesOf(SelectSeq(call.subtask_results,
                                       LAMBDA r : "success" \in DOMAIN r /\ r.success)),
                 " | ")

\* a failed result between two successful ones is left out of the summary
C17_Witness ==
    /\ call.op = "aggregate_results"
    /\ Len(call.subtask_results) = 3
    /\ call.subtask_results[2] = [success |-> FALSE, summary |-> "b"]
    /\ ret.summary = "a | d"
    /\ ret.quality_score = [num |-> 2, den |-> 3]

\* the subtask types and descriptions the table gives for a task type
ExpectedTypes(task_type) ==
    IF task_type = "research" THEN <<"search", "analyze", "synthesize">>
    ELSE IF task_type = "create" THEN <<"plan", "draft", "review">>
    ELSE <<"execute">>

ExpectedDescriptions(task_type, task) ==
    IF task_type = "research"
    THEN <<"Gather information", "Analyze findings", "Synthesize results">>
    ELSE IF task_type = "create"
    THEN <<"Create plan", "Draft content", "Review and refine">>
    ELSE <<IF "description" \in DOMAIN task THEN task.description ELSE "Execute task">>

\* C19: decompose_task changes no supervisor or bus state; what it returns is
\* fixed by the task: the three-step templates for research and create, one
\* subtask carrying the task's description for any other type; every subtask
\* has parent_task = the task's id and priority = the task's priority, 0 if the
\* task has none.
C19_DecomposePure ==
    /\ [](call.op = "decompose_task"
          => LET task_type == IF "type" \in DOMAIN call.task
                              THEN call.task.type ELSE "general"
                 types == ExpectedTypes(task_type)
                 descriptions == ExpectedDescriptions(task_type, call.task)
             IN /\ Len(ret) = Len(types)
                /\ \A i \in 1..Len(types) :
                      /\ DOMAIN ret[i] = {"type", "description", "parent_task", "priority"}
                      /\ ret[i].type = types[i]
                      /\ ret[i].description = descriptions[i]
                      /\ ret[i].parent_task
                         = (IF "id" \in DOMAIN call.task THEN call.task.id ELSE "None")
                      /\ ret[i].priority
                         = (IF "priority" \in DOMAIN call.task
                            THEN call.task.priority ELSE 0))
    /\ [][call'.op = "decompose_task"
          => UNCHANGED <<workers, inbox, outbox, message_history, next_id>>]_vars

\* a task of a type outside the table was decomposed, with workers registered
\* and one of them busy: one subtask with the task's description and id
C19_Witness ==
    /\ call.op = "decompose_task"
    /\ call.task = [type |-> "other", description |-> "do it", id |-> "t2"]
    /\ Len(ret) = 1
    /\ ret[1].description = "do it"
    /\ ret[1].parent_task = "t2"
    /\ \E i \in 1..Len(workers) : workers[i].status = "busy"

\* C20: initiate_vote on a topic that already exists fails with DuplicateTopic
\* and leaves the topic's slots, cast votes included, unchanged; on a new topic
\* it creates one pending slot per invited agent, in invitation order.
C20_RejectsDuplicates ==
    [][call'.op = "initiate_vote"
       => IF call'.topic_id \in DOMAIN votes
          THEN /\ "raised" \in DOMAIN ret'
               /\ votes' = votes
          ELSE /\ Len(votes'[call'.topic_id]) = Len(call'.agents)
               /\ \A i \in 1..Len(call'.agents) :
                     /\ votes'[call'.topic_id][i].agent = call'.agents[i]
                     /\ votes'[call'.topic_id][i].status = "pending"]_vars

\* the agents of a topic's slots, in slot order
AgentsOf(slots) == [i \in 1..Len(slots) |-> slots[i].agent]

\* agent a has a slot among slots
Invited(slots, a) == \E i \in 1..Len(slots) : slots[i].agent = a

\* the slots that are cast, and those cast for selection s
CastCount(slots) == Cardinality({i \in 1..Len(slots) : slots[i].status = "cast"})

CastCountFor(slots, s) ==
    Cardinality({i \in 1..Len(slots) :
                    slots[i].status = "cast" /\ slots[i].selection = s})

\* the votes counted in the details of a result, over the options A and B
CountedVotes(details) ==
    (IF "A" \in DOMAIN details THEN details["A"].vote_count ELSE 0)
    + (IF "B" \in DOMAIN details THEN details["B"].vote_count ELSE 0)

\* calculate_weighted_consensus returned a winner
Completed(c, r) ==
    /\ c.op = "calculate_weighted_consensus"
    /\ "value" \in DOMAIN r
    /\ r.value.status = "complete"

\* C21: initiate_vote creates the slots of the invited agents in invitation
\* order; no submit_vote and no calculate_weighted_consensus changes the agents
\* of any topic's slots; submit_vote by an agent without a slot changes nothing
\* and raises nothing; and calculate_weighted_consensus counts exactly the cast
\* slots.
C21_SlotsFixed ==
    [][/\ call'.op = "initiate_vote"
          => AgentsOf(votes'[call'.topic_id]) = call'.agents
       /\ call'.op \in {"submit_vote", "calculate_weighted_consensus"}
          => /\ DOMAIN votes' = DOMAIN votes
             /\ \A t \in DOMAIN votes : AgentsOf(votes'[t]) = AgentsOf(votes[t])
       /\ (/\ call'.op = "submit_vote"
           /\ call'.topic_id \in DOMAIN votes
           /\ ~Invited(votes[call'.topic_id], call'.agent_id))
          => /\ votes' = votes
             /\ ret' = [value |-> "None"]
       /\ Completed(call', ret')
          => CountedVotes(ret'.value.details) = CastCount(votes[call'.topic_id])]_vars

\* an agent without a slot voted on a topic with two slots, one of them cast
C21_Witness ==
    /\ call.op = "submit_vote"
    /\ call.topic_id \in DOMAIN votes
    /\ Len(votes[call.topic_id]) = 2
    /\ ~Invited(votes[call.topic_id], call.agent_id)
    /\ CastCount(votes[call.topic_id]) = 1
    /\ ret = [value |-> "None"]

\* C22: submit_vote and calculate_weighted_consensus on a topic that was never
\* initiated fail with ValueError("Unknown topic") and leave the vote table as
\* it was.
C22_UnknownTopicFails ==
    [][(/\ call'.op \in {"submit_vote", "calculate_weighted_consensus"}
        /\ call'.topic_id \notin DOMAIN votes)
       => /\ ret' = [raised |-> "ValueError", message |-> "Unknown topic"]
          /\ votes' = votes]_vars

\* calculate_weighted_consensus failed on a topic never initiated while another
\* topic holds a cast vote
C22_Witness ==
    /\ call.op = "calculate_weighted_consensus"
    /\ call.topic_id \notin DOMAIN votes
    /\ "raised" \in DOMAIN ret
    /\ \E t \in DOMAIN votes : CastCount(votes[t]) > 0

\* C23: submit_vote by an invited agent leaves its slot cast with the selection
\* and confidence of this call, whatever the slot held before, and changes no
\* other slot and no other topic; calculate_weighted_consensus counts for each
\* option the slots cast for it, so each agent once, with its latest vote.
C23_LastWriteWins ==
    [][/\ (/\ call'.op = "submit_vote"
           /\ call'.topic_id \in DOMAIN votes
           /\ Invited(votes[call'.topic_id], call'.agent_id))
          => LET t == call'.topic_id IN
             /\ \A u \in DOMAIN votes : u # t => votes'[u] = votes[u]
             /\ Len(votes'[t]) = Len(votes[t])
             /\ \A i \in 1..Len(votes[t]) :
                   IF votes[t][i].agent = call'.agent_id
                   THEN /\ votes'[t][i].status = "cast"
                        /\ votes'[t][i].selection = call'.selection
                        /\ votes'[t][i].confidence = call'.confidence
                        /\ votes'[t][i].agent = call'.agent_id
                   ELSE votes'[t][i] = votes[t][i]
       /\ Completed(call', ret')
          => \A s \in {"A", "B"} :
                 IF s \in DOMAIN ret'.value.details
                 THEN ret'.value.details[s].vote_count
                      = CastCountFor(votes[call'.topic_id], s)
                 ELSE CastCountFor(votes[call'.topic_id], s) = 0]_vars

\* an agent whose slot was cast for one option voted again for the other
C23_Witness ==
    /\ call.op = "submit_vote"
    /\ \E i \in 1..Len(call.slots_before) :
          /\ call.slots_before[i].agent = call.agent_id
          /\ call.slots_before[i].status = "cast"
          /\ call.slots_before[i].selection # call.selection
          /\ votes[call.topic_id][i].selection = call.selection
          /\ votes[call.topic_id][i].confidence = call.confidence

\* the sum of the confidences of the first n slots that are cast for s
RECURSIVE TallyScore(_, _, _)
TallyScore(slots, s, n) ==
    IF n = 0
    THEN 0
    ELSE TallyScore(slots, s, n - 1)
         + (IF slots[n].status = "cast" /\ slots[n].selection = s
            THEN slots[n].confidence ELSE 0)

C25_NoVotesOutcome ==
    (call.op = "calculate_weighted_consensus" /\ call.topic_id \in DOMAIN votes)
    => /\ "value" \in DOMAIN ret
       /\ IF CastCount(votes[call.topic_id]) = 0
          THEN ret.value = [status |-> "no_votes", result |-> "None"]
          ELSE /\ ret.value.status = "complete"
               /\ ret.value.result \in {"A", "B"}

\* a topic whose two slots are both pending gave no_votes
C25_Witness ==
    /\ call.op = "calculate_weighted_consensus"
    /\ call.topic_id \in DOMAIN votes
    /\ Len(votes[call.topic_id]) = 2
    /\ CastCount(votes[call.topic_id]) = 0
    /\ ret.value.status = "no_votes"

----------------------------------------------------------------------------
(* Broadcast and handoff: the claims *)

\* C26: broadcast appends one message per entry of receivers, in list order,
\* to that receiver's mailbox, each with the given sender, kind and content and
\* an id no other message of the history has; the history grows by the length
\* of receivers and the mailboxes of agents not in receivers are unchanged.
C26_BroadcastOnePerReceiver ==
    [][call'.op = "broadcast"
       => LET rs == call'.receivers
              h == Len(message_history)
              sent == SubSeq(message_history', h + 1, Len(message_history'))
          IN /\ Len(message_history') = h + Len(rs)
             /\ SubSeq(message_history', 1, h) = message_history
             /\ \A i \in 1..Len(rs) :
                   /\ sent[i].receiver = rs[i]
                   /\ sent[i].sender = call'.sender
                   /\ sent[i].message_type = call'.message_type
                   /\ sent[i].content = call'.content
             /\ \A i, j \in 1..Len(message_history') :
                   message_history'[i].message_id = message_history'[j].message_id
                   => i = j
             /\ \A a \in BusAgents :
                   Get(inbox', a, <<>>)
                   = Get(inbox, a, <<>>) \o SelectSeq(sent, LAMBDA m : m.receiver = a)
             /\ \A a \in DOMAIN inbox' :
                   a \in DOMAIN inbox \/ \E i \in 1..Len(rs) : rs[i] = a]_vars

\* a broadcast that names the same receiver twice put two messages with
\* different ids behind the one already in its mailbox
C26_Witness ==
    /\ call.op = "broadcast"
    /\ call.receivers = <<"w2", "w2">>
    /\ Len(Get(inbox, "w2", <<>>)) = 3
    /\ inbox["w2"][2].message_id # inbox["w2"][3].message_id
    /\ inbox["w2"][2].sender = call.sender
    /\ inbox["w2"][3].sender = call.sender

\* the ids of a list of messages
IdsOf(messages) == {messages[i].message_id : i \in 1..Len(messages)}

\* C27: accept_handoff(agent) drains the agent's whole mailbox and returns the
\* earliest-sent HANDOVER message in it, or nothing if it holds none; afterwards
\* the mailbox is empty and the other mailboxes are as before; and no receive
\* or accept_handoff returns a message that an earlier one drained.
C27_AcceptDrains ==
    [][/\ call'.op = "accept_handoff"
          => LET a == call'.agent
                 box == Get(inbox, a, <<>>)
             IN /\ call'.drained = box
                /\ a \in DOMAIN inbox'
                /\ inbox'[a] = <<>>
                /\ \A b \in DOMAIN inbox' \ {a} : b \in DOMAIN inbox /\ inbox'[b] = inbox[b]
                /\ DOMAIN inbox \subseteq DOMAIN inbox'
                /\ delivered'[a] = delivered[a] \o box
                /\ ret'.found <=> \E i \in 1..Len(box) : box[i].message_type = "handover"
                /\ ret'.found
                   => /\ ret'.message.message_type = "handover"
                      /\ \E i \in 1..Len(box) :
                            /\ box[i] = ret'.message
                            /\ \A j \in 1..(i - 1) : box[j].message_type # "handover"
                      /\ \A i \in 1..Len(box) :
                            box[i].message_type = "handover"
                            => ret'.message.message_id <= box[i].message_id
       /\ call'.op = "accept_handoff" /\ ret'.found
          => ret'.message.message_id \notin IdsOf(delivered[call'.agent])
       /\ call'.op = "receive"
          => IdsOf(ret') \cap IdsOf(delivered[call'.agent]) = {}]_vars

\* accept_handoff drained a request and two handovers and returned the first
\* handover; the mailbox is empty
C27_Witness ==
    /\ call.op = "accept_handoff"
    /\ Len(call.drained) = 3
    /\ call.drained[1].message_type = "request"
    /\ call.drained[2].message_type = "handover"
    /\ call.drained[3].message_type = "handover"
    /\ ret.found
    /\ ret.message = call.drained[2]
    /\ inbox[call.agent] = <<>>

\* the target of the last transfer_with_state has sent the source a RESPONSE
\* with status handoff_received at some time
TargetReplied ==
    \E i \in 1..Len(message_history) :
        /\ message_history[i].sender = call.to_agent
        /\ message_history[i].receiver = call.from_agent
        /\ IsAck(message_history[i])

\* C28: a transfer_with_state whose target never sends the source a RESPONSE
\* with status handoff_received returns false, having sent exactly one HANDOVER
\* message of priority 1 to the target's mailbox.
C28_NoReplyReturnsFalse ==
    (call.op = "transfer_with_state" /\ ~TargetReplied)
    => /\ ret = FALSE
       /\ call.handoff.message_type = "handover"
       /\ call.handoff.priority = 1
       /\ call.handoff.receiver = call.to_agent
       /\ Cardinality({i \in 1..Len(message_history) :
                          /\ message_history[i].message_id >= call.handoff.message_id
                          /\ message_history[i].message_type = "handover"}) = 1
       /\ Cardinality({i \in 1..Len(Get(inbox, call.to_agent, <<>>)) :
                          inbox[call.to_agent][i] = call.handoff}) = 1

\* C29: transfer_with_state returns true only if a RESPONSE whose sender is the
\* target, whose receiver is the source and whose status is handoff_received
\* was received after the handoff of this call had been sent.
C29_AckIsAuthentic ==
    (call.op = "transfer_with_state" /\ ret = TRUE)
    => \E i \in 1..Len(call.ack) :
           /\ IsAck(call.ack[i])
           /\ call.ack[i].sender = call.to_agent
           /\ call.ack[i].receiver = call.from_agent
           /\ call.ack[i].message_id > call.handoff.message_id

----------------------------------------------------------------------------
(* Threads: the claim *)

\* how often message s occurs in a list
Occurrences(messages, s) == Cardinality({i \in 1..Len(messages) : messages[i] = s})

\* the list self.inbox holds for the agent
Mailbox == IF slot = 0 THEN <<>> ELSE lists[slot]

\* every send has finished and no receive is under way
Quiescent ==
    /\ \A s \in Senders : threads.senders[s].pc = "done"
    /\ threads.receiver.pc = "line53"

\* C30: with send and receive interleaved at their reads and writes of the
\* mailbox map, no message is lost: once the sends are done, every message is
\* in exactly one batch a receive returned or still in the mailbox.
C30_NoMessageLost ==
    Quiescent
    => \A s \in Senders :
           Occurrences(threads.receiver.got, s) + Occurrences(Mailbox, s) = 1

----------------------------------------------------------------------------
(* Failure handler: failures while Open *)

\* agent a is Open: its breaker is set and not expired, and its failure_count
\* has reached the threshold
Open(a) ==
    /\ a \in DOMAIN circuit_breakers
    /\ now < circuit_breakers[a]
    /\ Get(failure_counts, a, 0) >= max_retries

----------------------------------------------------------------------------
(* Consensus tie-break and stale acknowledgments: the claims *)

\* the position of the first slot cast for option s, 0 when there is none
FirstCastFor(slots, s) ==
    IF CastCountFor(slots, s) = 0
    THEN 0
    ELSE CHOOSE i \in 1..Len(slots) :
             /\ slots[i].status = "cast" /\ slots[i].selection = s
             /\ \A j \in 1..(i - 1) :
                   ~(slots[j].status = "cast" /\ slots[j].selection = s)

\* C37: the winner has the highest weighted_score, and among the options that
\* share it the winner is the one whose first cast slot comes earliest in the
\* topic's slot order; so the winner is fixed by the slot contents, whatever
\* the order of the submit_vote calls.
C37_TieBreakBySlotOrder ==
    Completed(call, ret)
    => LET slots == votes[call.topic_id]
           winner == ret.value.result
       IN /\ FirstCastFor(slots, winner) > 0
          /\ \A s \in {"A", "B"} \ {winner} :
                FirstCastFor(slots, s) > 0
                => \/ TallyScore(slots, s, Len(slots))
                      < TallyScore(slots, winner, Len(slots))
                   \/ /\ TallyScore(slots, s, Len(slots))
                         = TallyScore(slots, winner, Len(slots))
                      /\ FirstCastFor(slots, winner) < FirstCastFor(slots, s)

\* a tie between B, cast in the first slot, and A, cast in the second: the
\* winner is B
C37_Witness ==
    /\ Completed(call, ret)
    /\ Len(votes[call.topic_id]) = 2
    /\ CastCount(votes[call.topic_id]) = 2
    /\ votes[call.topic_id][1].selection = "B"
    /\ votes[call.topic_id][2].selection = "A"
    /\ ret.value.details["A"].weighted_score = ret.value.details["B"].weighted_score
    /\ ret.value.result = "B"

\* C39: transfer_with_state leaves the source's mailbox empty; everything that
\* was queued for the source is drained by it and returned by no later receive;
\* it returns true exactly when a drained message is a RESPONSE with status
\* handoff_received, also one queued before the call while the target sends
\* nothing.
C39_StaleAckAccepted ==
    [][/\ call'.op = "transfer_with_state"
          => LET a == call'.from_agent
                 box == Get(inbox, a, <<>>)
             IN /\ a \in DOMAIN inbox'
                /\ inbox'[a] = <<>>
                /\ Len(call'.ack) >= Len(box)
                /\ SubSeq(call'.ack, 1, Len(box)) = box
                /\ delivered'[a] = delivered[a] \o call'.ack
                /\ ret' <=> \E i \in 1..Len(call'.ack) :
                                /\ call'.ack[i].message_type = "response"
                                /\ "status" \in DOMAIN call'.ack[i].content
                                /\ call'.ack[i].content.status = "handoff_received"
                /\ (\E i \in 1..Len(box) :
                        /\ box[i].message_type = "response"
                        /\ "status" \in DOMAIN box[i].content
                        /\ box[i].content.status = "handoff_received")
                   => ret' = TRUE
       /\ call'.op = "receive"
          => IdsOf(ret') \cap IdsOf(delivered[call'.agent]) = {}
       /\ call'.op = "transfer_with_state"
          => IdsOf(call'.ack) \cap IdsOf(delivered[call'.from_agent]) = {}]_vars

\* the call returned true on an acknowledgment queued before its handoff was
\* sent, with nothing arriving during the wait
C39_Witness ==
    /\ call.op = "transfer_with_state"
    /\ ret = TRUE
    /\ Len(call.ack) = 1
    /\ call.ack[1].message_id < call.handoff.message_id
    /\ inbox[call.from_agent] = <<>>

----------------------------------------------------------------------------
(* Supervisor and failure handler: the claims *)

\* is_available(w) of the failure handler would return false
BreakerActive(w) == w \in DOMAIN circuit_breakers /\ now < circuit_breakers[w]

\* C32: select_worker, called directly or by run_workflow, never returns a
\* worker for which the failure handler's is_available is false.
C32_SelectionConsultsBreaker ==
    /\ (call.op = "select_worker" /\ "value" \in DOMAIN ret)
       => ~BreakerActive(ret.value)
    /\ call.op = "run_workflow"
       => \A i \in 1..Len(call.picks) :
              "value" \in DOMAIN call.picks[i].result
              => ~BreakerActive(call.picks[i].result.value)

\* C33: whenever run_workflow has selected a worker for a subtask and collects
\* no RESPONSE for it, a failure is recorded for that worker: its
\* failure_count increases by one.
C33_MissingResponseCounted ==
    [][call'.op = "run_workflow"
       => \A i \in 1..Len(call'.picks) :
              (/\ "value" \in DOMAIN call'.picks[i].result
               /\ \/ "raised" \in DOMAIN ret'
                  \/ Len(ret'.value.subtask_results) < i)
              => LET w == call'.picks[i].result.value IN
                 /\ w \in DOMAIN failure_counts'
                 /\ failure_counts'[w] = Get(failure_counts, w, 0) + 1]_vars

\* C34: after run_workflow has ended, normally or with an error, no worker is
\* busy or holds a current_task.
C34_WorkersReleased ==
    call.op = "run_workflow"
    => \A i \in 1..Len(workers) :
           /\ workers[i].status # "busy"
           /\ workers[i].current_task = "None"

\* C35: a run_workflow in which every select_worker found a worker returns a
\* result whose subtask_results has one entry per subtask, in subtask order,
\* the i-th being the content of a RESPONSE the worker of the i-th subtask
\* sent to the supervisor after the i-th REQUEST.
C35_OneResultPerSubtask ==
    (/\ call.op = "run_workflow"
     /\ \A i \in 1..Len(call.picks) : "value" \in DOMAIN call.picks[i].result)
    => /\ "value" \in DOMAIN ret
       /\ Len(ret.value.subtask_results) = Len(call.picks)
       /\ Len(Dispatches) >= Len(call.picks)
       /\ \A i \in 1..Len(call.picks) :
             \E k \in 1..Len(message_history) :
                 /\ message_history[k].message_type = "response"
                 /\ message_history[k].sender = call.picks[i].result.value
                 /\ message_history[k].receiver = SupervisorName
                 /\ message_history[k].content = ret.value.subtask_results[i]
                 /\ message_history[k].message_id
                    > Dispatches[Len(Dispatches) - Len(call.picks) + i].message_id

----------------------------------------------------------------------------
(* Failure counting by concurrent threads: the claim *)

\* handle_failure or record_success run alone, as one step, on the count and
\* the breaker of one agent
SeqStep(st, op) ==
    IF op = "record_success"
    THEN [count |-> 0, open |-> st.open]
    ELSE [count |-> st.count + 1,
          open |-> st.open \/ ShouldActivate(st.count + 1, max_retries)]

RECURSIVE SeqRun(_, _)
SeqRun(st, ops) ==
    IF ops = <<>> THEN st ELSE SeqRun(SeqStep(st, Head(ops)), Tail(ops))

\* the calls of the handler threads with one record_success after the first k
SeqOrder(k) ==
    [i \in 1..(Cardinality(Handlers) + 1) |->
        IF i = k + 1 THEN "record_success" ELSE "handle_failure"]

\* what the sequential orders of the issued calls leave behind
SequentialOutcomes(withSuccess) ==
    IF withSuccess
    THEN {SeqRun([count |-> 0, open |-> FALSE], SeqOrder(k)) :
             k \in 0..Cardinality(Handlers)}
    ELSE {SeqRun([count |-> 0, open |-> FALSE],
                 [i \in 1..Cardinality(Handlers) |-> "handle_failure"])}

FailureOutcome ==
    [count |-> Get(failure_counts, "w1", 0),
     open |-> "w1" \in DOMAIN circuit_breakers]

\* C31: once the concurrent handle_failure calls for w1 (and the record_success
\* call, if it was issued) have finished, failure_counts and the breaker are
\* what some sequential order of those calls leaves; with no record_success,
\* n calls leave the count at n and the breaker open when n >= max_retries
C31_SerializedFailureCounting ==
    (\A h \in Handlers : threads.handlers[h].pc = "done") =>
        /\ threads.recorder.pc = "done" =>
              FailureOutcome \in SequentialOutcomes(TRUE)
        /\ threads.recorder.pc = "line439" =>
              /\ FailureOutcome \in SequentialOutcomes(FALSE)
              /\ FailureOutcome.count = Cardinality(Handlers)
              /\ Cardinality(Handlers) >= max_retries => FailureOutcome.open

----------------------------------------------------------------------------
(* Votes written by concurrent threads: the claim *)

\* slot carries a selection and a confidence that one submit_vote call of a
\* voter thread submitted together for the slot's agent
SubmittedTogether(vote) ==
    /\ "selection" \in DOMAIN vote
    /\ "confidence" \in DOMAIN vote
    /\ \E v \in Voters :
          /\ VoterBallot(v).agent_id = vote.agent
          /\ VoterBallot(v).selection = vote.selection
          /\ VoterBallot(v).confidence = vote.confidence

\* C36: while submit_vote calls for t1 and calculate_weighted_consensus("t1")
\* interleave at the writes of lines 329-331, every slot whose status is cast,
\* in self.votes and among the votes the tally took, carries a selection and a
\* confidence submitted together in one call, and the tally never raises
C36_VotesAtomicToObservers ==
    /\ \A i \in 1..Len(Get(votes, "t1", <<>>)) :
          votes["t1"][i].status = "cast" => SubmittedTogether(votes["t1"][i])
    /\ \A i \in 1..Len(threads.tally.seen) :
          SubmittedTogether(threads.tally.seen[i])
    /\ "raised" \notin DOMAIN threads.tally.out

====
